---- MODULE Spec2Model ----
(***************************************************************************)
(* Model of the leveraged yield-farming simulator: the liquidity math      *)
(* (strategies/core.py), the reward and trading strategies                 *)
(* (strategies/rewards.py, strategies/trading.py), the repricing helper    *)
(* (util.py) and the epoch loop of simulate (simulation.py).               *)
(*                                                                         *)
(* Numbers.  The program computes in floating point.  The model computes   *)
(* exactly, on rationals <<n, d>> in lowest terms with d > 0.  The inputs  *)
(* are drawn from values on which every operation of the program is exact: *)
(* prices are squares (so x ** 0.5 is rational), rates are dyadic, and a   *)
(* borrow APY is given by its daily growth factor (see np_exp).  Division  *)
(* by zero on numpy floats does not raise; it yields inf, -inf or nan,     *)
(* written <<1, 0>>, <<-1, 0>> and <<0, 0>>.  Python's None is <<>>.       *)
(***************************************************************************)
EXTENDS Integers, Sequences, FiniteSets, TLC

\* Number of dates (rows) of the input table.
NumDates == 3

----------------------------------------------------------------------------
\* Exact arithmetic

None == <<>>
NaN == <<0, 0>>
Inf == <<1, 0>>
NegInf == <<-1, 0>>

AbsInt(n) == IF n < 0 THEN -n ELSE n

RECURSIVE GCD(_, _)
GCD(a, b) == IF b = 0 THEN a ELSE GCD(b, a % b)

\* The rational n/d in lowest terms, d # 0.
Q(n, d) ==
    LET g == GCD(AbsInt(n), AbsInt(d))
        s == IF d < 0 THEN -1 ELSE 1
    IN  <<(s * n) \div g, (s * d) \div g>>

Zero == <<0, 1>>
One == <<1, 1>>
Two == <<2, 1>>
Half == <<1, 2>>

Add(a, b) == Q(a[1] * b[2] + b[1] * a[2], a[2] * b[2])
Neg(a) == <<-a[1], a[2]>>
Sub(a, b) == Add(a, Neg(b))
Mul(a, b) == Q(a[1] * b[1], a[2] * b[2])
Lt(a, b) == a[1] * b[2] < b[1] * a[2]
Le(a, b) == a[1] * b[2] <= b[1] * a[2]
Gt(a, b) == Lt(b, a)
Ge(a, b) == Le(b, a)
AbsQ(a) == <<AbsInt(a[1]), a[2]>>

\* a / b on numpy floats: a zero divisor gives nan, inf or -inf, no exception.
NpDiv(a, b) ==
    IF b[1] = 0
    THEN IF a[1] = 0 THEN NaN ELSE IF a[1] > 0 THEN Inf ELSE NegInf
    ELSE Q(a[1] * b[2], a[2] * b[1])

RECURSIVE ISqrtIter(_, _, _)
ISqrtIter(n, lo, hi) ==
    IF hi - lo <= 1 THEN lo
    ELSE LET mid == (lo + hi) \div 2
         IN  IF mid * mid <= n THEN ISqrtIter(n, mid, hi) ELSE ISqrtIter(n, lo, mid)

\* Largest i with i * i <= n.
ISqrt(n) == ISqrtIter(n, 0, IF n < 46340 THEN n + 1 ELSE 46341)

IsSquare(a) == /\ a[1] >= 0
               /\ ISqrt(a[1]) * ISqrt(a[1]) = a[1]
               /\ ISqrt(a[2]) * ISqrt(a[2]) = a[2]

\* x ** 0.5, exact when x is the square of a rational (IsSquare).
Sqrt(a) == <<ISqrt(a[1]), ISqrt(a[2])>>

\* A borrow APY is represented by g, standing for the APY 365.25 * ln(g):
\* LnApy(g) is that APY, and np.exp(apy * 1.0 / 365.25) is then g.
LnApy(g) == [ln |-> g]
DaysPerYear == Q(1461, 4)

\* np.expm1 in place of np.exp.
np_expm1_daily(apy) == Sub(apy.ln, One)

np_exp_daily(apy) == apy.ln

----------------------------------------------------------------------------
\* util.py

\* The two results the other way round, as the docstring of iloss_amt has them.
iloss_amt_docstring(k, r) ==
    LET x == Sqrt(NpDiv(k, r))
        y == Sqrt(Mul(k, r))
    IN  <<x, y>>

\* Returns <<(k * r) ** 0.5, (k / r) ** 0.5>>.
iloss_amt(k, r) ==
    LET x == Sqrt(Mul(k, r))
        y == Sqrt(NpDiv(k, r))
    IN  <<x, y>>

----------------------------------------------------------------------------
\* strategies/core.py

\* A silent fallback: every leverage that is neither 1 nor 2 opens as > 2.
leverage_branch_fallback(leverage) ==
    IF leverage = One THEN "one"
    ELSE IF leverage = Two THEN "two"
    ELSE "more"

\* The if / elif / elif / else of lines 33, 43, 63 and 118.
leverage_branch(leverage) ==
    IF leverage = One THEN "one"
    ELSE IF leverage = Two THEN "two"
    ELSE IF Gt(leverage, Two) THEN "more"
    ELSE "unsupported"

\* The swap fee not taken off the capital.
capital_without_swap_fee(capital, fee_swap) == capital

\* Line 30: capital * (1.0 - fee_swap)
capital_after_swap_fee(capital, fee_swap) == Mul(capital, Sub(One, fee_swap))

\* The debt split evenly between the two tokens.
token0_frac_even(leverage) == Half

\* Line 98: 1 / (leverage / (leverage - 2) + 1)
token0_frac_of(leverage) == NpDiv(One, Add(NpDiv(leverage, Sub(leverage, Two)), One))

\* The three supported branches of add_liquidity and the ValueError of the
\* last one.  capital, leverage, prices and fees are rationals.
add_liquidity(capital_in, leverage, pool_prices, fee_swap, fee_gas) ==
    LET token0_price == pool_prices[1]
        token1_price == pool_prices[2]
        capital == capital_after_swap_fee(capital_in, fee_swap)
    IN  IF leverage_branch(leverage) = "one"
        THEN [raised |-> "none",
              token_supply |-> <<NpDiv(Mul(capital, Half), token0_price),
                                 NpDiv(Mul(capital, Half), token1_price)>>,
              token_debt |-> <<Zero, Zero>>,
              fees |-> fee_gas]
        ELSE IF leverage_branch(leverage) = "two"
        THEN LET token1_debt == NpDiv(capital, token1_price)
             IN  [raised |-> "none",
                  token_supply |-> <<NpDiv(capital, token0_price), token1_debt>>,
                  token_debt |-> <<Zero, token1_debt>>,
                  fees |-> Mul(Q(4, 1), fee_gas)]
        ELSE IF leverage_branch(leverage) = "more"
        THEN LET token0_supply_value == Mul(Mul(Half, leverage), capital)
                 token1_supply_value == Mul(Mul(Half, leverage), capital)
                 multiplier == Sub(leverage, One)
                 token0_frac == token0_frac_of(leverage)
                 token1_frac == Sub(One, token0_frac)
                 token0_debt_value == Mul(Mul(capital, token0_frac), multiplier)
                 token1_debt_value == Mul(Mul(capital, token1_frac), multiplier)
             IN  [raised |-> "none",
                  token_supply |-> <<NpDiv(token0_supply_value, token0_price),
                                     NpDiv(token1_supply_value, token1_price)>>,
                  token_debt |-> <<NpDiv(token0_debt_value, token0_price),
                                   NpDiv(token1_debt_value, token1_price)>>,
                  fees |-> Mul(Q(6, 1), fee_gas)]
        ELSE [raised |-> "ValueError",
              token_supply |-> <<Zero, Zero>>,
              token_debt |-> <<Zero, Zero>>,
              fees |-> Zero]

\* The supplies sold without the debts taken off them first.
remove_liquidity_gross(token_supply, token_debt, pool_prices, amount, fee_swap, fee_gas) ==
    LET keep == Sub(One, amount)
        token0_cash == Mul(Mul(Mul(token_supply[1], amount), pool_prices[1]),
                           Sub(One, fee_swap))
        token1_cash == Mul(Mul(Mul(token_supply[2], amount), pool_prices[2]),
                           Sub(One, fee_swap))
    IN  [token_supply |-> <<Mul(token_supply[1], keep), Mul(token_supply[2], keep)>>,
         token_debt |-> <<Mul(token_debt[1], keep), Mul(token_debt[2], keep)>>,
         cash |-> Add(token0_cash, token1_cash),
         fees |-> Add(fee_gas, fee_gas)]

\* Lines 144-174.
remove_liquidity(token_supply, token_debt, pool_prices, amount, fee_swap, fee_gas) ==
    LET token0_price == pool_prices[1]
        token1_price == pool_prices[2]
        keep == Sub(One, amount)
        token0_equity == Sub(token_supply[1], token_debt[1])
        token0_sell == Mul(token0_equity, amount)
        token0_cash == Mul(Mul(token0_sell, token0_price), Sub(One, fee_swap))
        token1_equity == Sub(token_supply[2], token_debt[2])
        token1_sell == Mul(token1_equity, amount)
        token1_cash == Mul(Mul(token1_sell, token1_price), Sub(One, fee_swap))
    IN  [token_supply |-> <<Mul(token_supply[1], keep), Mul(token_supply[2], keep)>>,
         token_debt |-> <<Mul(token_debt[1], keep), Mul(token_debt[2], keep)>>,
         cash |-> Add(token0_cash, token1_cash),
         fees |-> Add(fee_gas, fee_gas)]

----------------------------------------------------------------------------
\* strategies/rewards.py

sell_rewards(reward_tokens, reward_price, pool_tokens, amount, fee_swap, fee_gas) ==
    IF Le(amount, Zero)
    THEN [reward_tokens |-> reward_tokens, pool_tokens |-> pool_tokens,
          cash |-> Zero, fees |-> Zero]
    ELSE LET reward_tokens_sell == Mul(amount, reward_tokens)
             reward_tokens_sell_after_fees == Mul(reward_tokens_sell, Sub(One, fee_swap))
         IN  [reward_tokens |-> Sub(reward_tokens, reward_tokens_sell),
              pool_tokens |-> pool_tokens,
              cash |-> Mul(reward_tokens_sell_after_fees, reward_price),
              fees |-> Mul(fee_gas, One)]

\* self is the strategy object: [kind |-> "Sell", sell_amount |-> q].
SellRewardsStrategy_execute(self, reward_tokens, reward_price, pool_tokens, pool_prices, fee_swap, fee_gas) ==
    sell_rewards(reward_tokens, reward_price, pool_tokens, self.sell_amount,
                 fee_swap, fee_gas)

\* RewardsStrategy.__init__(self, sell_amount), called with the positional
\* arguments argv: any other number of them is a TypeError, and no object
\* comes to exist.
RewardsStrategy_init(kind, argv) ==
    IF Len(argv) = 1
    THEN [raised |-> "none", object |-> [kind |-> kind, sell_amount |-> argv[1]]]
    ELSE [raised |-> "TypeError", object |-> None]

\* Line 55: super().__init__(sell_amount)
SellRewardsStrategy_init(sell_amount) ==
    RewardsStrategy_init("Sell", <<sell_amount>>)

\* Line 83: super().__init__(rewards_fn, sell_amount)
CompoundRewardsStrategy_init(rewards_fn, sell_amount) ==
    RewardsStrategy_init("Compound", <<rewards_fn, sell_amount>>)

----------------------------------------------------------------------------
\* strategies/trading.py

\* A passive strategy that charges one gas fee per call.
HODLStrategy_execute_charging(self, token_supply, token_debt, df_input, input_cash) ==
    [raised |-> "none", self |-> self, rebalanced |-> FALSE,
     token_supply |-> token_supply, token_debt |-> token_debt,
     cash |-> input_cash, fees |-> One, metadata |-> <<>>,
     fees_close |-> One, fees_open |-> Zero]

\* Line 37: return token_supply, token_debt, input_cash, 0, dict()
HODLStrategy_execute(self, token_supply, token_debt, df_input, input_cash) ==
    [raised |-> "none", self |-> self, rebalanced |-> FALSE,
     token_supply |-> token_supply, token_debt |-> token_debt,
     cash |-> input_cash, fees |-> Zero, metadata |-> <<>>,
     fees_close |-> Zero, fees_open |-> Zero]

\* np.abs(token1_price - anchor) / anchor
price_delta_of(token1_price, price_anchor) ==
    NpDiv(AbsQ(Sub(token1_price, price_anchor)), price_anchor)

\* The trigger compared with >= instead of >.
exceeds_threshold_ge(price_delta, threshold) == Ge(price_delta, threshold)

\* Line 97: price_delta > self._threshold
exceeds_threshold(price_delta, threshold) == Gt(price_delta, threshold)

\* The cash of the close handed back on top of the cash passed in.
output_cash_with_close(input_cash, cash_close) == Add(input_cash, cash_close)

\* Line 89: output_cash = input_cash, whatever the close returns later.
output_cash_of(input_cash, cash_close) == input_cash

\* self is the strategy object; the result carries the object after the call
\* (its _price_anchor is the only field execute assigns).  rebalanced,
\* fees_close and fees_open report the branch taken and the fees returned by
\* the two liquidity calls; metadata is the sequence of (key, value) pairs.
RebalanceStrategy_execute(self, token_supply, token_debt, df_input, input_cash) ==
    LET last == df_input[Len(df_input)].row
        pool_prices == <<last.token0_price, last.token1_price>>
        token1_price == pool_prices[2]
        price_delta == price_delta_of(token1_price, self.price_anchor)
        metadata == << <<"price_delta", price_delta>> >>
    IN  IF exceeds_threshold(price_delta, self.threshold)
        THEN LET closed == remove_liquidity(token_supply, token_debt, pool_prices,
                                            self.amount, self.fee_swap, self.fee_gas)
                 opened == add_liquidity(closed.cash, self.leverage, pool_prices,
                                         self.fee_swap, self.fee_gas)
             IN  IF opened.raised # "none"
                 THEN [raised |-> opened.raised, self |-> self, rebalanced |-> FALSE,
                       token_supply |-> token_supply, token_debt |-> token_debt,
                       cash |-> input_cash, fees |-> Zero, metadata |-> metadata,
                       fees_close |-> Zero, fees_open |-> Zero]
                 ELSE [raised |-> "none",
                       self |-> [self EXCEPT !.price_anchor = token1_price],
                       rebalanced |-> TRUE,
                       token_supply |-> opened.token_supply,
                       token_debt |-> opened.token_debt,
                       cash |-> output_cash_of(input_cash, closed.cash),
                       fees |-> Add(closed.fees, opened.fees),
                       metadata |-> metadata,
                       fees_close |-> closed.fees, fees_open |-> opened.fees]
        ELSE [raised |-> "none", self |-> self, rebalanced |-> FALSE,
              token_supply |-> token_supply, token_debt |-> token_debt,
              cash |-> input_cash, fees |-> Zero, metadata |-> metadata,
              fees_close |-> Zero, fees_open |-> Zero]

TradingStrategy_execute(self, token_supply, token_debt, df_input, input_cash) ==
    IF self.kind = "HODL"
    THEN HODLStrategy_execute(self, token_supply, token_debt, df_input, input_cash)
    ELSE RebalanceStrategy_execute(self, token_supply, token_debt, df_input, input_cash)

----------------------------------------------------------------------------
\* simulation.py: state

VARIABLES
    df_in,                \* the caller's table: a sequence of rows
    args,                 \* the scalar arguments of simulate
    strategy_cls,         \* the trading strategy object
    rewards_cls,          \* the reward strategy object; before it is
                          \* constructed, the constructor call to be made
    pc,                   \* "construct", "start", "loop", "returned" or "raised"
    exc,                  \* the exception that ended the run, or "none"
    df,                   \* simulate's working copy of the table
    idx,                  \* the row the loop is at (1-based)
    ratio_initial,
    token_supply_initial, \* <<token0_supply_initial, token1_supply_initial>>
    token_debt_initial,
    cash_accum,
    fees_accum,
    rewards_accum,
    last_token_supply,    \* <<last_token0_supply, last_token1_supply>>
    last_token_debt,
    fees_ops,             \* history: the fees each sub-operation returned, summed
    call,                 \* history: the last call of strategy_cls.execute
    first_run             \* history: the table an earlier run with the same
                          \* objects returned, or None

vars == <<df_in, args, strategy_cls, rewards_cls, pc, exc, df, idx, ratio_initial,
          token_supply_initial, token_debt_initial, cash_accum, fees_accum,
          rewards_accum, last_token_supply, last_token_debt, fees_ops, call,
          first_run>>

OptionalColumns == <<"reward_token_price", "apy_trading_fee", "apy_reward",
                     "apy_borrow_token0", "apy_borrow_token1">>

\* The derived columns of a row before its epoch ran (enrich_columns): NaN,
\* and trade_event False.
NaNRecord ==
    [written |-> FALSE,
     token0_supply_open |-> NaN, token1_supply_open |-> NaN,
     position_pool_open_dollars |-> NaN, apy_total |-> NaN,
     token0_earnings |-> NaN, token1_earnings |-> NaN,
     trading_fee_earnings_dollars |-> NaN, reward_earnings_dollars |-> NaN,
     reward_token_earnings |-> NaN, cash_from_rewards |-> NaN,
     token0_supply_close |-> NaN, token1_supply_close |-> NaN,
     token0_debt_close |-> NaN, token1_debt_close |-> NaN,
     pool_value |-> NaN, cash_value |-> NaN, rewards_value |-> NaN,
     fees_value |-> NaN, position_value |-> NaN, debt_value |-> NaN,
     equity_value |-> NaN, effective_leverage |-> NaN, pool_equity |-> NaN,
     profit_value |-> NaN, roi |-> NaN, debt_ratio |-> NaN, iloss |-> NaN,
     position_hodl_dollars |-> NaN, trade_event |-> FALSE,
     strategy_metadata |-> NaN]

\* A derived column created as zero.
enrich_columns_zeroed(table) ==
    [i \in 1..Len(table) |->
        [row |-> table[i], rec |-> [NaNRecord EXCEPT !.pool_value = Zero]]]

\* Lines 18-58.
enrich_columns(table) ==
    [i \in 1..Len(table) |-> [row |-> table[i], rec |-> NaNRecord]]

\* An absent optional column with no scalar argument silently defaulted.
fill_optional_defaulted(row, a) ==
    [token0_price |-> row.token0_price,
     token1_price |-> row.token1_price,
     reward_token_price |->
        IF row.reward_token_price # None THEN row.reward_token_price
        ELSE IF a.reward_token_price # None THEN a.reward_token_price ELSE One,
     apy_trading_fee |->
        IF row.apy_trading_fee # None THEN row.apy_trading_fee
        ELSE IF a.apy_trading_fee # None THEN a.apy_trading_fee ELSE Zero,
     apy_reward |->
        IF row.apy_reward # None THEN row.apy_reward
        ELSE IF a.apy_reward # None THEN a.apy_reward ELSE Zero,
     apy_borrow_token0 |->
        IF row.apy_borrow_token0 = None /\ a.apy_borrow_token0 # None
        THEN a.apy_borrow_token0 ELSE row.apy_borrow_token0,
     apy_borrow_token1 |->
        IF row.apy_borrow_token1 = None /\ a.apy_borrow_token1 # None
        THEN a.apy_borrow_token1 ELSE row.apy_borrow_token1,
     fee_gas |-> a.fee_gas,
     fee_swap |-> a.fee_gas]

\* Lines 99-111: an absent optional column is filled from its scalar argument
\* when one was given; the two fee columns are both set from fee_gas.
fill_optional(row, a) ==
    [token0_price |-> row.token0_price,
     token1_price |-> row.token1_price,
     reward_token_price |->
        IF row.reward_token_price = None /\ a.reward_token_price # None
        THEN a.reward_token_price ELSE row.reward_token_price,
     apy_trading_fee |->
        IF row.apy_trading_fee = None /\ a.apy_trading_fee # None
        THEN a.apy_trading_fee ELSE row.apy_trading_fee,
     apy_reward |->
        IF row.apy_reward = None /\ a.apy_reward # None
        THEN a.apy_reward ELSE row.apy_reward,
     apy_borrow_token0 |->
        IF row.apy_borrow_token0 = None /\ a.apy_borrow_token0 # None
        THEN a.apy_borrow_token0 ELSE row.apy_borrow_token0,
     apy_borrow_token1 |->
        IF row.apy_borrow_token1 = None /\ a.apy_borrow_token1 # None
        THEN a.apy_borrow_token1 ELSE row.apy_borrow_token1,
     fee_gas |-> a.fee_gas,
     fee_swap |-> a.fee_gas]

NoCall == [made |-> FALSE]

\* A constructor call of the caller, not yet made.
ConstructorCall(cls, rewards_fn, sell_amount) ==
    [kind |-> "call", cls |-> cls, rewards_fn |-> rewards_fn,
     sell_amount |-> sell_amount]

----------------------------------------------------------------------------
\* The caller constructs the reward strategy it will pass to simulate.  An
\* exception of the constructor ends the run: there is no object to pass.
Construct ==
    /\ pc = "construct"
    /\ \E made \in {IF rewards_cls.cls = "CompoundRewardsStrategy"
                    THEN CompoundRewardsStrategy_init(rewards_cls.rewards_fn,
                                                      rewards_cls.sell_amount)
                    ELSE SellRewardsStrategy_init(rewards_cls.sell_amount)} :
        IF made.raised = "none"
        THEN /\ rewards_cls' = made.object
             /\ pc' = "start"
             /\ exc' = "none"
        ELSE /\ rewards_cls' = rewards_cls
             /\ pc' = "raised"
             /\ exc' = made.raised
    /\ UNCHANGED <<df_in, args, strategy_cls, df, idx, ratio_initial,
                   token_supply_initial, token_debt_initial, cash_accum, fees_accum,
                   rewards_accum, last_token_supply, last_token_debt, fees_ops, call,
                   first_run>>

----------------------------------------------------------------------------
\* simulation.py: simulate

\* Lines 96-157: everything before the loop.  A local that is not yet bound
\* when an exception leaves the function is None.
SimulateStart ==
    /\ pc = "start"
    /\ LET work == enrich_columns([i \in 1..Len(df_in) |-> fill_optional(df_in[i], args)])
           price0_initial == work[1].row.token0_price
           price1_initial == work[1].row.token1_price
           opened == add_liquidity(args.initial_cap, args.leverage,
                                   <<price0_initial, price1_initial>>,
                                   args.fee_swap, args.fee_gas)
       IN  /\ df' = work
           /\ ratio_initial' = NpDiv(price1_initial, price0_initial)
           /\ IF args.open_on_start /\ opened.raised = "none"
              THEN /\ token_supply_initial' = opened.token_supply
                   /\ token_debt_initial' = opened.token_debt
                   /\ cash_accum' = Zero
                   /\ fees_accum' = opened.fees
                   /\ rewards_accum' = Zero
                   /\ last_token_supply' = opened.token_supply
                   /\ last_token_debt' = opened.token_debt
                   /\ fees_ops' = opened.fees
                   /\ pc' = "loop"
                   /\ exc' = "none"
              ELSE \* add_liquidity raised at line 128, or fees_open is read
                   \* unbound at line 151
                   /\ token_supply_initial' = <<Zero, Zero>>
                   /\ token_debt_initial' = <<Zero, Zero>>
                   /\ cash_accum' = args.initial_cap
                   /\ fees_accum' = None
                   /\ rewards_accum' = None
                   /\ last_token_supply' = None
                   /\ last_token_debt' = None
                   /\ fees_ops' = Zero
                   /\ pc' = "raised"
                   /\ exc' = IF args.open_on_start THEN opened.raised
                             ELSE "UnboundLocalError"
    /\ idx' = 1
    /\ UNCHANGED <<df_in, args, strategy_cls, rewards_cls, call, first_run>>

\* The first read of the loop body that fails, if any: row[...] of an absent
\* column (lines 166-169), then None * 1.0 (lines 234-235).
epoch_exception(row, a) ==
    IF row.reward_token_price = None THEN "KeyError"
    ELSE IF row.apy_trading_fee = None THEN "KeyError"
    ELSE IF row.apy_reward = None THEN "KeyError"
    ELSE IF a.apy_borrow_token0 = None THEN "TypeError"
    ELSE IF a.apy_borrow_token1 = None THEN "TypeError"
    ELSE "none"

\* Lines 234-235: the rates compounded into the debts.
borrow_apys_used(row, a) == <<a.apy_borrow_token0, a.apy_borrow_token1>>

compound_debt(debt, apys) ==
    <<Mul(debt[1], np_exp_daily(apys[1])), Mul(debt[2], np_exp_daily(apys[2]))>>

\* Lines 281-283.
trade_occurred_of(token_supply_in, token_debt_in, token_supply_out, token_debt_out) ==
    (token_supply_in # token_supply_out) \/ (token_debt_in # token_debt_out)

\* The reward strategy's fee left out of the running total.
accumulate_fees_no_rewards(accum, fees_rewards, fees_trade) == Add(accum, fees_trade)

\* Line 296.
accumulate_fees(accum, fees_rewards, fees_trade) ==
    Add(Add(accum, fees_rewards), fees_trade)

\* Lines 348-352.
iloss_of(ratio_init, ratio) ==
    LET rel_ratio == NpDiv(ratio_init, ratio)
    IN  Sub(Mul(Two, NpDiv(Sqrt(rel_ratio), Add(One, rel_ratio))), One)

\* The initial holdings at current prices, not divided by the leverage.
position_hodl_dollars_undivided(token0_price, token1_price, supply_initial, leverage) ==
    Add(Mul(token0_price, supply_initial[1]), Mul(token1_price, supply_initial[2]))

\* Lines 359-361.
position_hodl_dollars_of(token0_price, token1_price, supply_initial, leverage) ==
    NpDiv(Add(Mul(token0_price, supply_initial[1]), Mul(token1_price, supply_initial[2])),
          leverage)

\* The constant product held fixed at the original opening supplies.
tk_of_initial(last_supply) == Mul(token_supply_initial[1], token_supply_initial[2])

\* Lines 173-175: last_token0_supply * last_token1_supply
tk_of(last_supply) == Mul(last_supply[1], last_supply[2])

\* Lines 162-258 of one iteration: repricing, earnings, debt compounding and
\* the reward strategy, up to the inputs of the trading strategy.
epoch_before_trade(row, a) ==
    LET token0_price == row.token0_price
        token1_price == row.token1_price
        reward_token_price == row.reward_token_price
        ratio == NpDiv(token1_price, token0_price)
        apy_trading_fee == row.apy_trading_fee
        apy_reward == row.apy_reward
        fee_gas == row.fee_gas
        tk == tk_of(last_token_supply)
        open == iloss_amt(tk, ratio)
        position_pool_open_dollars ==
            Add(Mul(token0_price, open[1]), Mul(token1_price, open[2]))
        daily_fee == NpDiv(apy_trading_fee, DaysPerYear)
        token0_earnings == Mul(open[1], daily_fee)
        token1_earnings == Mul(open[2], daily_fee)
        reward_earnings_dollars ==
            NpDiv(Mul(position_pool_open_dollars, apy_reward), DaysPerYear)
        reward_token_earnings == NpDiv(reward_earnings_dollars, reward_token_price)
        debt_cur == compound_debt(last_token_debt, borrow_apys_used(row, a))
        rewarded == SellRewardsStrategy_execute(
                        rewards_cls, reward_token_earnings, reward_token_price,
                        <<Zero, Zero>>, <<token0_price, token1_price>>,
                        a.fee_swap, fee_gas)
    IN  [ratio |-> ratio,
         token_supply_open |-> open,
         position_pool_open_dollars |-> position_pool_open_dollars,
         apy_total |-> Add(apy_trading_fee, apy_reward),
         token0_earnings |-> token0_earnings,
         token1_earnings |-> token1_earnings,
         trading_fee_earnings_dollars |->
            Add(Mul(token0_earnings, token0_price), Mul(token1_earnings, token1_price)),
         reward_earnings_dollars |-> reward_earnings_dollars,
         reward_token_earnings |-> reward_token_earnings,
         rewarded |-> rewarded,
         token_supply_in |->
            <<Add(Add(open[1], token0_earnings), rewarded.pool_tokens[1]),
              Add(Add(open[2], token1_earnings), rewarded.pool_tokens[2])>>,
         token_debt_in |-> debt_cur,
         cash_in |-> Add(cash_accum, rewarded.cash)]

\* The strategy handed the whole table, future rows included.
df_input_whole(table, i) == table

\* Line 267: df[df.index <= idx]
df_input_of(table, i) == SubSeq(table, 1, i)

\* Lines 160-409: one iteration of the loop, for row idx.
Epoch ==
    /\ pc = "loop"
    /\ idx <= Len(df)
    /\ LET row == df[idx].row
           raised_early == epoch_exception(row, args)
       IN  IF raised_early # "none"
           THEN /\ pc' = "raised"
                /\ exc' = raised_early
                /\ UNCHANGED <<df, idx, strategy_cls, cash_accum, fees_accum,
                               rewards_accum, last_token_supply, last_token_debt,
                               fees_ops, call>>
           ELSE
           \E e \in {epoch_before_trade(row, args)} :
           LET token0_price == row.token0_price
               token1_price == row.token1_price
               df_input == df_input_of(df, idx)
           IN  \E out \in {TradingStrategy_execute(strategy_cls, e.token_supply_in,
                                              e.token_debt_in, df_input, e.cash_in)} :
               IF out.raised # "none"
               THEN /\ pc' = "raised"
                    /\ exc' = out.raised
                    /\ UNCHANGED <<df, idx, strategy_cls, cash_accum, fees_accum,
                                   rewards_accum, last_token_supply, last_token_debt,
                                   fees_ops, call>>
               ELSE
               LET trade_occurred == trade_occurred_of(e.token_supply_in, e.token_debt_in,
                                                       out.token_supply, out.token_debt)
                   cash_new == out.cash
                   rewards_new == Add(rewards_accum, e.rewarded.reward_tokens)
                   fees_new == accumulate_fees(fees_accum, e.rewarded.fees, out.fees)
                   supply_close == out.token_supply
                   debt_close == out.token_debt
                   token0_debt_value == Mul(debt_close[1], token0_price)
                   token1_debt_value == Mul(debt_close[2], token1_price)
                   pool_value == Add(Mul(token0_price, supply_close[1]),
                                     Mul(token1_price, supply_close[2]))
                   rewards_value == Mul(rewards_new, row.reward_token_price)
                   position_value == Sub(Add(Add(pool_value, rewards_value), cash_new),
                                         fees_new)
                   debt_value == Add(token0_debt_value, token1_debt_value)
                   pool_equity == Sub(pool_value, debt_value)
                   equity_value == Sub(position_value, debt_value)
                   profit_value == Sub(equity_value, args.initial_cap)
                   \* annualized_apr (a fractional power of 1 + roi) is not
                   \* represented; nothing else reads it.
                   daily_record ==
                       [written |-> TRUE,
                        token0_supply_open |-> e.token_supply_open[1],
                        token1_supply_open |-> e.token_supply_open[2],
                        position_pool_open_dollars |-> e.position_pool_open_dollars,
                        apy_total |-> e.apy_total,
                        token0_earnings |-> e.token0_earnings,
                        token1_earnings |-> e.token1_earnings,
                        trading_fee_earnings_dollars |-> e.trading_fee_earnings_dollars,
                        reward_earnings_dollars |-> e.reward_earnings_dollars,
                        reward_token_earnings |-> e.reward_token_earnings,
                        cash_from_rewards |-> e.rewarded.cash,
                        token0_supply_close |-> supply_close[1],
                        token1_supply_close |-> supply_close[2],
                        token0_debt_close |-> debt_close[1],
                        token1_debt_close |-> debt_close[2],
                        pool_value |-> pool_value,
                        cash_value |-> cash_new,
                        rewards_value |-> rewards_value,
                        fees_value |-> fees_new,
                        position_value |-> position_value,
                        debt_value |-> debt_value,
                        equity_value |-> equity_value,
                        effective_leverage |-> NpDiv(pool_value, pool_equity),
                        pool_equity |-> pool_equity,
                        profit_value |-> profit_value,
                        roi |-> NpDiv(profit_value, args.initial_cap),
                        debt_ratio |-> NpDiv(debt_value, Add(debt_value, pool_equity)),
                        iloss |-> iloss_of(ratio_initial, e.ratio),
                        position_hodl_dollars |->
                            position_hodl_dollars_of(token0_price, token1_price,
                                                     token_supply_initial, args.leverage),
                        trade_event |-> trade_occurred,
                        strategy_metadata |-> out.metadata]
               IN  /\ df' = [df EXCEPT ![idx].rec = daily_record]
                   /\ strategy_cls' = out.self
                   /\ cash_accum' = cash_new
                   /\ rewards_accum' = rewards_new
                   /\ fees_accum' = fees_new
                   /\ last_token_supply' = supply_close
                   /\ last_token_debt' = debt_close
                   /\ fees_ops' = Add(fees_ops,
                                      Add(e.rewarded.fees,
                                          Add(out.fees_close, out.fees_open)))
                   /\ call' = [made |-> TRUE,
                               self |-> strategy_cls,
                               token1_price |-> token1_price,
                               token_supply_in |-> e.token_supply_in,
                               token_debt_in |-> e.token_debt_in,
                               cash_in |-> e.cash_in,
                               df_input |-> [i \in 1..Len(df_input) |->
                                                <<df_input[i].row.token0_price,
                                                  df_input[i].row.token1_price>>],
                               out |-> out]
                   /\ idx' = idx + 1
                   /\ pc' = "loop"
                   /\ exc' = "none"
    /\ UNCHANGED <<df_in, args, rewards_cls, ratio_initial, token_supply_initial,
                   token_debt_initial, first_run>>

\* Line 411: the loop is over and the table is returned.
Return ==
    /\ pc = "loop"
    /\ idx > Len(df)
    /\ pc' = "returned"
    /\ UNCHANGED <<df_in, args, strategy_cls, rewards_cls, exc, df, idx, ratio_initial,
                   token_supply_initial, token_debt_initial, cash_accum, fees_accum,
                   rewards_accum, last_token_supply, last_token_debt, fees_ops, call,
                   first_run>>

\* The caller calls simulate a second time with the same table, the same
\* arguments and the same two strategy objects.  The locals of the new call
\* are fresh; the objects are as the first call left them.
SimulateAgain ==
    /\ pc = "returned"
    /\ first_run = None
    /\ first_run' = df
    /\ pc' = "start"
    /\ exc' = "none"
    /\ df' = <<>>
    /\ idx' = 0
    /\ ratio_initial' = None
    /\ token_supply_initial' = None
    /\ token_debt_initial' = None
    /\ cash_accum' = None
    /\ fees_accum' = None
    /\ rewards_accum' = None
    /\ last_token_supply' = None
    /\ last_token_debt' = None
    /\ fees_ops' = Zero
    /\ call' = NoCall
    /\ UNCHANGED <<df_in, args, strategy_cls, rewards_cls>>

----------------------------------------------------------------------------
\* The runs explored

Four == <<4, 1>>
Three == <<3, 1>>

\* <<token0_price, token1_price>> of a row.
PriceRows == {<<One, One>>, <<One, Four>>, <<Four, One>>}

NoColumns == [reward_token_price |-> None, apy_trading_fee |-> None,
              apy_reward |-> None, apy_borrow_token0 |-> None,
              apy_borrow_token1 |-> None]

Row(prices, cols) ==
    [token0_price |-> prices[1], token1_price |-> prices[2],
     reward_token_price |-> cols.reward_token_price,
     apy_trading_fee |-> cols.apy_trading_fee,
     apy_reward |-> cols.apy_reward,
     apy_borrow_token0 |-> cols.apy_borrow_token0,
     apy_borrow_token1 |-> cols.apy_borrow_token1]

PriceTables == [1..NumDates -> PriceRows]
ConstantPriceTables == {[i \in 1..NumDates |-> p] : p \in PriceRows}

\* A table of prices only.
PlainTable(prices) == [i \in 1..NumDates |-> Row(prices[i], NoColumns)]

ZeroApys == [reward_token_price |-> Two, apy_trading_fee |-> Zero,
             apy_reward |-> Zero, apy_borrow_token0 |-> LnApy(One),
             apy_borrow_token1 |-> LnApy(One)]
SomeApys == [reward_token_price |-> Two, apy_trading_fee |-> DaysPerYear,
             apy_reward |-> DaysPerYear, apy_borrow_token0 |-> LnApy(Two),
             apy_borrow_token1 |-> LnApy(Two)]

Args(cap, lev, gas, swap, apys, open) ==
    [initial_cap |-> cap, leverage |-> lev, fee_gas |-> gas, fee_swap |-> swap,
     reward_token_price |-> apys.reward_token_price,
     apy_trading_fee |-> apys.apy_trading_fee,
     apy_reward |-> apys.apy_reward,
     apy_borrow_token0 |-> apys.apy_borrow_token0,
     apy_borrow_token1 |-> apys.apy_borrow_token1,
     open_on_start |-> open]

HODLStrategy == [kind |-> "HODL"]

RebalanceStrategy(price_anchor, threshold, leverage, amount, fee_swap, fee_gas) ==
    [kind |-> "Rebalance", price_anchor |-> price_anchor, threshold |-> threshold,
     leverage |-> leverage, amount |-> amount, fee_swap |-> fee_swap,
     fee_gas |-> fee_gas, initial_price |-> price_anchor]

SellRewardsStrategy(sell_amount) == [kind |-> "Sell", sell_amount |-> sell_amount]

InitialCap == <<16, 1>>
Threshold == <<3, 4>>
SupportedLeverages == {One, Two, Three, Four}
UnsupportedLeverages == {Zero, <<3, 2>>, <<-1, 1>>}

TradingStrategies(swap, gas) ==
    {HODLStrategy} \cup
    {RebalanceStrategy(One, Threshold, l, a, swap, gas) :
        l \in SupportedLeverages, a \in {One, Half}}

InitLocals ==
    /\ pc = "start"
    /\ exc = "none"
    /\ df = <<>>
    /\ idx = 0
    /\ ratio_initial = None
    /\ token_supply_initial = None
    /\ token_debt_initial = None
    /\ cash_accum = None
    /\ fees_accum = None
    /\ rewards_accum = None
    /\ last_token_supply = None
    /\ last_token_debt = None
    /\ fees_ops = Zero
    /\ call = NoCall
    /\ first_run = None

\* Valid runs: every supported leverage, both strategies, with and without
\* swap fee, all APYs zero or all positive, every price table.
InitValid ==
    \E prices \in PriceTables, lev \in SupportedLeverages, swap \in {Zero, Half},
       apys \in {ZeroApys, SomeApys} :
        /\ df_in = PlainTable(prices)
        /\ args = Args(InitialCap, lev, One, swap, apys, TRUE)
        /\ strategy_cls \in TradingStrategies(swap, One)
        /\ rewards_cls = SellRewardsStrategy(Half)

\* Unsupported leverage with an immediate open.
InitUnsupported ==
    \E prices \in ConstantPriceTables, lev \in UnsupportedLeverages :
        /\ df_in = PlainTable(prices)
        /\ args = Args(InitialCap, lev, One, Zero, ZeroApys, TRUE)
        /\ strategy_cls = HODLStrategy
        /\ rewards_cls = SellRewardsStrategy(Half)

\* open_on_start = False.
InitDeferred ==
    \E prices \in ConstantPriceTables, lev \in {One, Three} :
        /\ df_in = PlainTable(prices)
        /\ args = Args(InitialCap, lev, One, Zero, ZeroApys, FALSE)
        /\ strategy_cls \in {HODLStrategy,
                             RebalanceStrategy(One, Threshold, lev, One, Zero, One)}
        /\ rewards_cls = SellRewardsStrategy(Half)

\* One optional series given neither as a column nor as a scalar.
InitMissing ==
    \E prices \in ConstantPriceTables, lev \in {One, Three},
       c \in 1..Len(OptionalColumns) :
        /\ df_in = PlainTable(prices)
        /\ args = Args(InitialCap, lev, One, Zero,
                       [ZeroApys EXCEPT ![OptionalColumns[c]] = None], TRUE)
        /\ strategy_cls = HODLStrategy
        /\ rewards_cls = SellRewardsStrategy(Half)

\* The borrow APYs given as table columns that vary over time, with no scalar
\* argument or with one.
BorrowColumns == [1..NumDates -> {LnApy(One), LnApy(Two)}]

InitBorrowColumn ==
    \E prices \in ConstantPriceTables, col \in BorrowColumns,
       scalar \in {None, LnApy(One), LnApy(Two)} :
        /\ df_in = [i \in 1..NumDates |->
                       Row(prices[i], [NoColumns EXCEPT !.apy_borrow_token0 = col[i],
                                                        !.apy_borrow_token1 = col[i]])]
        /\ args = Args(InitialCap, Three, One, Zero,
                       [ZeroApys EXCEPT !.apy_borrow_token0 = scalar,
                                        !.apy_borrow_token1 = scalar], TRUE)
        /\ strategy_cls = HODLStrategy
        /\ rewards_cls = SellRewardsStrategy(Half)

\* No fees at all, over constant prices.
InitNoFees ==
    \E prices \in ConstantPriceTables, lev \in SupportedLeverages :
        /\ df_in = PlainTable(prices)
        /\ args = Args(InitialCap, lev, Zero, Zero, ZeroApys, TRUE)
        /\ strategy_cls \in TradingStrategies(Zero, Zero)
        /\ rewards_cls = SellRewardsStrategy(Half)

\* As InitLocals, before the caller has constructed the reward strategy.
InitUnconstructed ==
    /\ pc = "construct"
    /\ exc = "none"
    /\ df = <<>>
    /\ idx = 0
    /\ ratio_initial = None
    /\ token_supply_initial = None
    /\ token_debt_initial = None
    /\ cash_accum = None
    /\ fees_accum = None
    /\ rewards_accum = None
    /\ last_token_supply = None
    /\ last_token_debt = None
    /\ fees_ops = Zero
    /\ call = NoCall
    /\ first_run = None

SellFractions == {Zero, Half, One}

\* The reward strategy still to be constructed: either class, every fraction.
InitConstruct ==
    \E prices \in ConstantPriceTables, lev \in {One, Three},
       apys \in {ZeroApys, SomeApys}, f \in SellFractions :
        /\ df_in = PlainTable(prices)
        /\ args = Args(InitialCap, lev, One, Half, apys, TRUE)
        /\ strategy_cls = HODLStrategy
        /\ rewards_cls \in {ConstructorCall("SellRewardsStrategy", "none", f),
                            ConstructorCall("CompoundRewardsStrategy",
                                            "sell_rewards", f)}

Init ==
    \/ /\ InitLocals
       /\ \/ InitValid
          \/ InitUnsupported
          \/ InitDeferred
          \/ InitMissing
          \/ InitBorrowColumn
          \/ InitNoFees
    \/ /\ InitUnconstructed
       /\ InitConstruct

Next == Construct \/ SimulateStart \/ Epoch \/ Return

Spec == Init /\ [][Next]_vars

\* Runs whose initial capital is zero or negative.
NonPositiveCaps == {Zero, <<-16, 1>>}

InitNonPositive ==
    /\ InitUnconstructed
    /\ \E prices \in PriceTables, lev \in SupportedLeverages, cap \in NonPositiveCaps,
          swap \in {Zero, Half} :
        /\ df_in = PlainTable(prices)
        /\ args = Args(cap, lev, One, swap, ZeroApys, TRUE)
        /\ strategy_cls = HODLStrategy
        /\ rewards_cls = ConstructorCall("SellRewardsStrategy", "none", Half)

SpecNonPositive == InitNonPositive /\ [][Next]_vars

\* Spec is one call of simulate.  Here the caller may call it a second time.
NextTwoRuns == Next \/ SimulateAgain

SpecTwoRuns == Init /\ [][NextTwoRuns]_vars

----------------------------------------------------------------------------
\* Properties

\* The rows whose epoch record has been written.
WrittenRows == {i \in 1..Len(df) : df[i].rec.written}

\* The closing supplies and debts an epoch starts from.
PrevSupply(i) ==
    IF i = 1 THEN token_supply_initial
    ELSE <<df[i - 1].rec.token0_supply_close, df[i - 1].rec.token1_supply_close>>
PrevDebt(i) ==
    IF i = 1 THEN token_debt_initial
    ELSE <<df[i - 1].rec.token0_debt_close, df[i - 1].rec.token1_debt_close>>

RowRatio(i) == NpDiv(df[i].row.token1_price, df[i].row.token0_price)

\* Every x ** 0.5 of the run was taken of the square of a rational, so the
\* model's arithmetic was exact.
SqrtExact ==
    \A i \in WrittenRows :
        LET k == Mul(PrevSupply(i)[1], PrevSupply(i)[2])
        IN  /\ IsSquare(Mul(k, RowRatio(i)))
            /\ IsSquare(NpDiv(k, RowRatio(i)))
            /\ IsSquare(NpDiv(ratio_initial, RowRatio(i)))

\* C1: in every epoch of a run with valid parameters, both closing debts and
\* both closing supplies are >= 0, rebalancing epochs included.
C1_CloseNonNegative ==
    \A i \in WrittenRows :
        /\ Ge(df[i].rec.token0_debt_close, Zero)
        /\ Ge(df[i].rec.token1_debt_close, Zero)
        /\ Ge(df[i].rec.token0_supply_close, Zero)
        /\ Ge(df[i].rec.token1_supply_close, Zero)

\* C2 as claimed: with k the product of the previous closing supplies and
\* r = token1_price / token0_price, token0_supply_open = sqrt(k / r) and
\* token1_supply_open = sqrt(k * r).
C2_OpenIsSqrtKOverR ==
    \A i \in WrittenRows :
        LET k == Mul(PrevSupply(i)[1], PrevSupply(i)[2])
            r == RowRatio(i)
        IN  /\ Ge(df[i].rec.token0_supply_open, Zero)
            /\ Ge(df[i].rec.token1_supply_open, Zero)
            /\ Mul(df[i].rec.token0_supply_open, df[i].rec.token0_supply_open)
                    = NpDiv(k, r)
            /\ Mul(df[i].rec.token1_supply_open, df[i].rec.token1_supply_open)
                    = Mul(k, r)

\* C2 amended: token0_supply_open = sqrt(k * r) and token1_supply_open =
\* sqrt(k / r); each is the non-negative root.
C2_OpenIsSqrtKTimesR ==
    \A i \in WrittenRows :
        LET k == Mul(PrevSupply(i)[1], PrevSupply(i)[2])
            r == RowRatio(i)
        IN  /\ Ge(df[i].rec.token0_supply_open, Zero)
            /\ Ge(df[i].rec.token1_supply_open, Zero)
            /\ Mul(df[i].rec.token0_supply_open, df[i].rec.token0_supply_open)
                    = Mul(k, r)
            /\ Mul(df[i].rec.token1_supply_open, df[i].rec.token1_supply_open)
                    = NpDiv(k, r)

\* An epoch was repriced at a ratio other than 1 from a non-empty pool whose
\* two supplies differ.
C2_Witness ==
    \E i \in WrittenRows :
        /\ i > 1
        /\ RowRatio(i) # One
        /\ RowRatio(i) # RowRatio(i - 1)
        /\ df[i].rec.token0_supply_open # df[i].rec.token1_supply_open
        /\ Gt(df[i].rec.token0_supply_open, Zero)

ConstantPrices ==
    \A i \in 1..Len(df_in) :
        /\ df_in[i].token0_price = df_in[1].token0_price
        /\ df_in[i].token1_price = df_in[1].token1_price

\* Every APY of the run, given as a column or as a scalar, is zero.
AllApysZero ==
    /\ \A i \in 1..Len(df_in) :
        /\ df_in[i].apy_trading_fee \in {None, Zero}
        /\ df_in[i].apy_reward \in {None, Zero}
        /\ df_in[i].apy_borrow_token0 \in {None, LnApy(One)}
        /\ df_in[i].apy_borrow_token1 \in {None, LnApy(One)}
    /\ args.apy_trading_fee \in {None, Zero}
    /\ args.apy_reward \in {None, Zero}
    /\ args.apy_borrow_token0 \in {None, LnApy(One)}
    /\ args.apy_borrow_token1 \in {None, LnApy(One)}

\* C3: with constant prices, all APYs zero and the passive strategy, the
\* closing supplies and debts of every epoch are those of the initial open,
\* and iloss = 0, for every supported leverage.
C3_IdempotentUnderNoChange ==
    (ConstantPrices /\ AllApysZero /\ strategy_cls.kind = "HODL") =>
        \A i \in WrittenRows :
            /\ <<df[i].rec.token0_supply_close, df[i].rec.token1_supply_close>>
                    = token_supply_initial
            /\ <<df[i].rec.token0_debt_close, df[i].rec.token1_debt_close>>
                    = token_debt_initial
            /\ df[i].rec.iloss = Zero

\* A leveraged passive run over constant, unequal prices with zero APYs has
\* finished all its epochs.
C3_Witness ==
    /\ ConstantPrices /\ AllApysZero /\ strategy_cls.kind = "HODL"
    /\ pc = "returned"
    /\ WrittenRows = 1..NumDates
    /\ args.leverage = Three
    /\ RowRatio(1) # One
    /\ Gt(token_debt_initial[1], Zero)

\* C4: under ThresholdRebalance an epoch's trade_event is true if and only if
\* the strategy rebalanced in that epoch.
C4_TradeEventIffRebalanced ==
    (call.made /\ call.self.kind = "Rebalance") =>
        (df[idx - 1].rec.trade_event <=> call.out.rebalanced)

\* The configured anchor, or the token1 price of the latest epoch whose
\* recorded price_delta exceeded the threshold.
LastRebalancePrice ==
    LET hits == {i \in WrittenRows :
                    Gt(df[i].rec.strategy_metadata[1][2], strategy_cls.threshold)}
    IN  IF hits = {} THEN strategy_cls.initial_price
        ELSE df[CHOOSE i \in hits : \A j \in hits : j <= i].row.token1_price

\* C5: a call of ThresholdRebalance.execute rebalances iff
\* |price - anchor| / anchor > threshold; the anchor changes only then, to the
\* call's token1 price, so it is always the token1 price of the latest
\* rebalance or the configured anchor; without a rebalance supply, debt and
\* cash come back unchanged with zero fees; price_delta is always reported.
C5_TriggerAndAnchor ==
    (strategy_cls.kind = "Rebalance") =>
        /\ strategy_cls.price_anchor = LastRebalancePrice
        /\ call.made =>
            LET delta == NpDiv(AbsQ(Sub(call.token1_price, call.self.price_anchor)),
                               call.self.price_anchor)
                hit == Gt(delta, call.self.threshold)
            IN  /\ call.out.rebalanced <=> hit
                /\ strategy_cls.price_anchor =
                        IF hit THEN call.token1_price ELSE call.self.price_anchor
                /\ strategy_cls = [call.self EXCEPT !.price_anchor =
                                                        strategy_cls.price_anchor]
                /\ ~hit => /\ call.out.token_supply = call.token_supply_in
                           /\ call.out.token_debt = call.token_debt_in
                           /\ call.out.fees = Zero
                /\ call.out.cash = call.cash_in
                /\ call.out.metadata = << <<"price_delta", delta>> >>
                /\ df[idx - 1].rec.strategy_metadata = call.out.metadata

\* The strategy has rebalanced, moving its anchor to 4, and then kept the
\* position in a call whose price_delta was exactly the threshold.
C5_Witness ==
    /\ strategy_cls.kind = "Rebalance"
    /\ call.made
    /\ call.self.price_anchor = Four
    /\ call.token1_price = One
    /\ ~call.out.rebalanced
    /\ strategy_cls.price_anchor # strategy_cls.initial_price

\* C6: after every epoch the reported fees_value is the fee of the initial
\* open plus, over the epochs so far, the reward strategy's fee and the
\* trading strategy's close and open fees.
C6_FeeConservation ==
    (pc \in {"loop", "returned"}) =>
        /\ fees_accum = fees_ops
        /\ idx > 1 => df[idx - 1].rec.fees_value = fees_ops

\* An epoch with a rebalance and a reward sale, all with a gas fee, is recorded.
C6_Witness ==
    /\ idx > 2
    /\ call.made
    /\ call.out.rebalanced
    /\ Gt(call.out.fees_close, Zero)
    /\ Gt(call.out.fees_open, Zero)
    /\ Gt(df[idx - 1].rec.fees_value, df[idx - 2].rec.fees_value)

\* An optional series given as a column of the caller's table.
HasColumn(c) == df_in[1][c] # None
\* An optional series given neither as a column nor as a scalar.
IsMissing(c) == ~HasColumn(c) /\ args[c] = None
MissingSeries == \E c \in 1..Len(OptionalColumns) : IsMissing(OptionalColumns[c])

\* C7: in every epoch each token's debt grows by the factor of that epoch's
\* apy_borrow_token0 / apy_borrow_token1 of the table, whether the column came
\* with the table (and no scalar) or was filled from the scalar.
C7_DebtGrowsByTableApy ==
    /\ (pc = "raised" /\ exc = "TypeError") =>
            (IsMissing("apy_borrow_token0") \/ IsMissing("apy_borrow_token1"))
    /\ call.made =>
            call.token_debt_in =
                <<Mul(PrevDebt(idx - 1)[1], np_exp_daily(df[idx - 1].row.apy_borrow_token0)),
                  Mul(PrevDebt(idx - 1)[2], np_exp_daily(df[idx - 1].row.apy_borrow_token1))>>

\* C8: with open_on_start = False the run starts with zero supplies, debts,
\* fees and rewards and cash = initial capital, does not fail during
\* initialization, and returns one record per date.
C8_DeferredOpenRuns ==
    (~args.open_on_start /\ pc # "start") =>
        /\ pc # "raised"
        /\ token_supply_initial = <<Zero, Zero>>
        /\ token_debt_initial = <<Zero, Zero>>
        /\ pc = "returned" => WrittenRows = 1..Len(df_in)

Unsupported(leverage) == leverage # One /\ ~Ge(leverage, Two)

\* C9: add_liquidity with a leverage that is neither 1 nor >= 2 raises and
\* returns no position; simulate with open_on_start = True then fails before
\* the first epoch, with no record written.
C9_UnsupportedLeverageFailsFast ==
    (args.open_on_start /\ Unsupported(args.leverage) /\ pc # "start") =>
        /\ add_liquidity(args.initial_cap, args.leverage,
                         <<df_in[1].token0_price, df_in[1].token1_price>>,
                         args.fee_swap, args.fee_gas).raised = "ValueError"
        /\ pc = "raised"
        /\ exc = "ValueError"
        /\ idx = 1
        /\ WrittenRows = {}
        /\ ~call.made

\* A run with leverage 1.5 has failed.
C9_Witness ==
    /\ args.open_on_start
    /\ args.leverage = <<3, 2>>
    /\ pc = "raised"
    /\ exc = "ValueError"

\* C10 as claimed: a run with a missing series fails before the loop begins,
\* before the position is opened into the loop.
C10_FailsBeforeLoop ==
    (MissingSeries /\ args.open_on_start /\ ~Unsupported(args.leverage)) =>
        pc \in {"start", "raised"}

\* C10 amended: such a run enters the loop with the position opened and fails
\* in its first iteration, before any epoch record is written.
C10_FailsInFirstEpoch ==
    (MissingSeries /\ args.open_on_start /\ ~Unsupported(args.leverage)) =>
        /\ pc \in {"start", "loop", "raised"}
        /\ pc = "loop" => (idx = 1 /\ last_token_supply = token_supply_initial)
        /\ pc = "raised" => exc \in {"KeyError", "TypeError"}
        /\ WrittenRows = {}
        /\ ~call.made
        /\ pc # "start" => \A i \in 1..Len(df) : df[i].rec = NaNRecord

\* A run without reward_token_price has failed in the loop, position opened.
C10_Witness ==
    /\ IsMissing("reward_token_price")
    /\ args.open_on_start
    /\ pc = "raised"
    /\ exc = "KeyError"
    /\ idx = 1
    /\ Gt(token_supply_initial[1], Zero)

\* C11: a run given an initial capital <= 0 fails with a configuration error
\* before the loop; it opens no position and writes no epoch record.
C11_NonPositiveRejected ==
    (Le(args.initial_cap, Zero) /\ pc \notin {"construct", "start"}) =>
        /\ pc = "raised"
        /\ exc = "ValueError"
        /\ WrittenRows = {}
        /\ ~call.made

\* The capital left after the swap fee, and the prices of the first row.
OpenCapital == Mul(args.initial_cap, Sub(One, args.fee_swap))
OpenPrice0 == df_in[1].token0_price
OpenPrice1 == df_in[1].token1_price

\* C12: with c = capital * (1 - fee_swap), the initial open gives, for
\* leverage 1, supply (c/2/p0, c/2/p1), no debt and fee fee_gas; for leverage
\* 2, supply (c/p0, c/p1), debt (0, c/p1) and fee 4 * fee_gas; for leverage
\* L > 2, supply (L*c/2/p0, L*c/2/p1), a debt worth (L-1)*c of which token0
\* has the share 1/(L/(L-2)+1) (a quarter at L = 3, a third at L = 4) and
\* fee 6 * fee_gas.  The reopening of a rebalance charges the same fees.
C12_OpenPerLeverage ==
    /\ (args.open_on_start /\ pc \in {"loop", "returned"}) =>
        LET c == OpenCapital
            L == args.leverage
            s == token_supply_initial
            d == token_debt_initial
            debt0_value == Mul(d[1], OpenPrice0)
            debt1_value == Mul(d[2], OpenPrice1)
        IN  IF L = One
            THEN /\ s = <<NpDiv(Mul(c, Half), OpenPrice0), NpDiv(Mul(c, Half), OpenPrice1)>>
                 /\ d = <<Zero, Zero>>
                 /\ idx = 1 => fees_accum = args.fee_gas
            ELSE IF L = Two
            THEN /\ s = <<NpDiv(c, OpenPrice0), NpDiv(c, OpenPrice1)>>
                 /\ d = <<Zero, NpDiv(c, OpenPrice1)>>
                 /\ idx = 1 => fees_accum = Mul(Four, args.fee_gas)
            ELSE /\ Gt(L, Two)
                 /\ s = <<NpDiv(Mul(Mul(L, c), Half), OpenPrice0),
                          NpDiv(Mul(Mul(L, c), Half), OpenPrice1)>>
                 /\ Add(debt0_value, debt1_value) = Mul(Sub(L, One), c)
                 /\ debt0_value =
                        Mul(NpDiv(One, Add(NpDiv(L, Sub(L, Two)), One)),
                            Mul(Sub(L, One), c))
                 /\ L = Three => /\ debt0_value = Mul(Half, c)
                                 /\ debt1_value = Mul(<<3, 2>>, c)
                 /\ L = Four => /\ debt0_value = c
                                /\ debt1_value = Mul(Two, c)
                 /\ idx = 1 => fees_accum = Mul(<<6, 1>>, args.fee_gas)
    /\ (call.made /\ call.out.rebalanced) =>
        call.out.fees_open =
            Mul(IF call.self.leverage = One THEN One
                ELSE IF call.self.leverage = Two THEN Four ELSE <<6, 1>>,
                call.self.fee_gas)

\* A position was opened at leverage 4 with a swap fee, at unequal prices.
C12_Witness ==
    /\ pc = "loop"
    /\ idx = 1
    /\ args.leverage = Four
    /\ args.fee_swap = Half
    /\ OpenPrice0 # OpenPrice1
    /\ Gt(token_debt_initial[1], Zero)
    /\ Gt(fees_accum, Zero)

\* The prices of the row of the last call of the trading strategy.
CallPrices == <<df[idx - 1].row.token0_price, df[idx - 1].row.token1_price>>

\* The close made by the last call of the rebalancing strategy.
CallClosed ==
    remove_liquidity(call.token_supply_in, call.token_debt_in, CallPrices,
                     call.self.amount, call.self.fee_swap, call.self.fee_gas)

\* The cash a close of the given amount returns: the sum over both tokens of
\* (supply - debt) * amount * price * (1 - fee_swap).
CloseCash(supply, debt, prices, amount, fee_swap) ==
    Add(Mul(Mul(Mul(Sub(supply[1], debt[1]), amount), prices[1]), Sub(One, fee_swap)),
        Mul(Mul(Mul(Sub(supply[2], debt[2]), amount), prices[2]), Sub(One, fee_swap)))

\* C13: the close of a rebalance leaves each supply and each debt scaled by
\* (1 - amount), all zero when amount = 1; it returns the cash
\* sum_i (supply_i - debt_i) * amount * price_i * (1 - fee_swap), which is the
\* capital the position is reopened with, and the fee 2 * fee_gas.
C13_ClosePosition ==
    (call.made /\ call.out.rebalanced) =>
        LET amount == call.self.amount
            keep == Sub(One, amount)
            cash == CloseCash(call.token_supply_in, call.token_debt_in, CallPrices,
                              amount, call.self.fee_swap)
        IN  /\ CallClosed.token_supply =
                    <<Mul(call.token_supply_in[1], keep), Mul(call.token_supply_in[2], keep)>>
            /\ CallClosed.token_debt =
                    <<Mul(call.token_debt_in[1], keep), Mul(call.token_debt_in[2], keep)>>
            /\ amount = One => /\ CallClosed.token_supply = <<Zero, Zero>>
                               /\ CallClosed.token_debt = <<Zero, Zero>>
            /\ CallClosed.cash = cash
            /\ CallClosed.fees = Mul(Two, call.self.fee_gas)
            /\ call.out.fees_close = Mul(Two, call.self.fee_gas)
            /\ call.out.token_supply =
                    add_liquidity(cash, call.self.leverage, CallPrices,
                                  call.self.fee_swap, call.self.fee_gas).token_supply

\* Half of a leveraged position with debt in both tokens was closed, with a
\* swap fee and for a positive amount of cash.
C13_Witness ==
    /\ call.made
    /\ call.out.rebalanced
    /\ call.self.amount = Half
    /\ call.self.fee_swap = Half
    /\ Gt(call.token_debt_in[1], Zero)
    /\ Gt(call.token_debt_in[2], Zero)
    /\ Gt(CallClosed.cash, Zero)
    /\ Gt(CallClosed.token_supply[1], Zero)

\* The fees_value before epoch i: the fee of the initial open, or the
\* fees_value of the previous epoch.
PrevFees(i) ==
    IF i = 1
    THEN add_liquidity(args.initial_cap, args.leverage, <<OpenPrice0, OpenPrice1>>,
                       args.fee_swap, args.fee_gas).fees
    ELSE df[i - 1].rec.fees_value

\* C14: in every epoch the reward strategy with sell fraction f, given the
\* epoch's earned reward tokens e, returns (1 - f) * e tokens, the cash
\* f * e * reward_price * (1 - fee_swap) and the pool tokens unchanged, and
\* its fee is fee_gas if any amount was sold and 0 otherwise; for f <= 0 it
\* returns e and the pool tokens unchanged with zero cash and zero fee.
C14_SellAll ==
    \A i \in WrittenRows :
        LET f == rewards_cls.sell_amount
            e == df[i].rec.reward_token_earnings
            price == df[i].row.reward_token_price
            sold == SellRewardsStrategy_execute(
                        rewards_cls, e, price, <<Zero, Zero>>,
                        <<df[i].row.token0_price, df[i].row.token1_price>>,
                        args.fee_swap, df[i].row.fee_gas)
            fee == IF Gt(f, Zero) /\ Gt(Mul(f, e), Zero) THEN df[i].row.fee_gas ELSE Zero
        IN  /\ sold.pool_tokens = <<Zero, Zero>>
            /\ sold.reward_tokens = IF Gt(f, Zero) THEN Mul(Sub(One, f), e) ELSE e
            /\ sold.cash = IF Gt(f, Zero)
                           THEN Mul(Mul(Mul(f, e), price), Sub(One, args.fee_swap))
                           ELSE Zero
            /\ df[i].rec.cash_from_rewards = sold.cash
            /\ sold.fees = fee
            /\ strategy_cls.kind = "HODL" =>
                    df[i].rec.fees_value = Add(PrevFees(i), fee)

\* C15: a CompoundRewardsStrategy with a sell fraction f > 0 can be
\* constructed: its constructor call does not fail, so the call is either
\* still to be made or has given the object passed to the driver.
C15_CompoundUsable ==
    (/\ rewards_cls.kind = "call"
     /\ rewards_cls.cls = "CompoundRewardsStrategy"
     /\ Gt(rewards_cls.sell_amount, Zero)) =>
        /\ pc = "construct"
        /\ exc = "none"

\* C16: in every epoch of a run with the passive strategy the closing supply
\* and debt are the working supply and debt passed to the strategy, the cash
\* after the strategy is the cash passed in, the strategy adds no fee, the
\* metadata is empty, and trade_event is false.
C16_PassiveIsIdentity ==
    (strategy_cls.kind = "HODL") =>
        /\ \A i \in WrittenRows :
            /\ df[i].rec.trade_event = FALSE
            /\ df[i].rec.strategy_metadata = <<>>
        /\ call.made =>
            /\ call.out.token_supply = call.token_supply_in
            /\ call.out.token_debt = call.token_debt_in
            /\ call.out.cash = call.cash_in
            /\ call.out.fees = Zero
            /\ call.out.metadata = <<>>
            /\ <<df[idx - 1].rec.token0_supply_close, df[idx - 1].rec.token1_supply_close>>
                    = call.token_supply_in
            /\ <<df[idx - 1].rec.token0_debt_close, df[idx - 1].rec.token1_debt_close>>
                    = call.token_debt_in
            /\ df[idx - 1].rec.cash_value = call.cash_in
            /\ cash_accum = call.cash_in
            /\ last_token_supply = call.token_supply_in
            /\ last_token_debt = call.token_debt_in
            /\ df[idx - 1].rec.fees_value =
                    Add(PrevFees(idx - 1),
                        SellRewardsStrategy_execute(
                            rewards_cls, df[idx - 1].rec.reward_token_earnings,
                            df[idx - 1].row.reward_token_price, <<Zero, Zero>>,
                            CallPrices, args.fee_swap, df[idx - 1].row.fee_gas).fees)

\* The passive strategy was called in a later epoch with debt in both tokens,
\* supplies grown by earnings and cash from sold rewards.
C16_Witness ==
    /\ strategy_cls.kind = "HODL"
    /\ call.made
    /\ idx > 2
    /\ Gt(call.token_debt_in[1], token_debt_initial[1])
    /\ Gt(call.token_debt_in[2], Zero)
    /\ Gt(call.cash_in, Zero)
    /\ call.token_supply_in # token_supply_initial

\* Rows are written one at a time and in order, and a written row is final.
WrittenOnceInOrder ==
    /\ WrittenRows \subseteq WrittenRows'
    /\ \A i \in WrittenRows : df'[i] = df[i]
    /\ \A i \in WrittenRows' \ WrittenRows :
        /\ i = idx
        /\ idx' = idx + 1
        /\ df[i].rec = NaNRecord
        /\ df'[i].row = df[i].row
    /\ df # <<>> => (Len(df') = Len(df) /\ \A i \in 1..Len(df) : df'[i].row = df[i].row)

\* The table has one row per input date, in the input's order; the rows of
\* the epochs run so far are written and every other row has its defaults.
OneRowPerDate ==
    (pc \in {"loop", "returned"}) =>
        /\ Len(df) = Len(df_in)
        /\ \A i \in 1..Len(df) :
            /\ df[i].row.token0_price = df_in[i].token0_price
            /\ df[i].row.token1_price = df_in[i].token1_price
            /\ ~df[i].rec.written => df[i].rec = NaNRecord
        /\ WrittenRows = 1..(idx - 1)
        /\ pc = "returned" => WrittenRows = 1..Len(df_in)

\* C17: simulate returns a table with exactly one row per input date in the
\* input's order; every row starts with NaN / False defaults; each row is
\* written exactly once, in increasing date order, and a written row is never
\* modified by a later epoch.
C17_WrittenOnceInOrder == [](OneRowPerDate) /\ [][WrittenOnceInOrder]_vars

\* A run over changing prices has returned with all its rows written and the
\* records of the first two epochs different.
C17_Witness ==
    /\ pc = "returned"
    /\ WrittenRows = 1..NumDates
    /\ df[1].row # df[2].row
    /\ df[1].rec # df[2].rec
    /\ df[2].rec # df[NumDates].rec

\* The initial holdings valued at the prices of row i.
InitialHoldingsValue(i) ==
    Add(Mul(df[i].row.token0_price, token_supply_initial[1]),
        Mul(df[i].row.token1_price, token_supply_initial[2]))

\* C18 as claimed: position_hodl_dollars is the value, at the epoch's prices,
\* of the token amounts held when the position was opened.
C18_HodlIsInitialHoldings ==
    \A i \in WrittenRows : df[i].rec.position_hodl_dollars = InitialHoldingsValue(i)

\* C18 amended: position_hodl_dollars is that value divided by the leverage,
\* which with c = capital * (1 - fee_swap) is c/2 * (p0/p0_open + p1/p1_open)
\* at every leverage: it depends on the prices, the capital and the swap fee
\* of the open only.
C18_HodlIsHoldingsOverLeverage ==
    \A i \in WrittenRows :
        /\ df[i].rec.position_hodl_dollars =
                NpDiv(InitialHoldingsValue(i), args.leverage)
        /\ df[i].rec.position_hodl_dollars =
                Mul(Mul(OpenCapital, Half),
                    Add(NpDiv(df[i].row.token0_price, OpenPrice0),
                        NpDiv(df[i].row.token1_price, OpenPrice1)))

\* A run at leverage 3 has rebalanced, earned and paid fees, and records the
\* benchmark at prices other than those of the open.
C18_Witness ==
    /\ args.leverage = Three
    /\ call.made
    /\ call.out.rebalanced
    /\ idx > 2
    /\ CallPrices # <<OpenPrice0, OpenPrice1>>
    /\ Gt(df[idx - 1].rec.token0_earnings, Zero)
    /\ df[idx - 1].rec.position_hodl_dollars # InitialHoldingsValue(idx - 1)

\* No rebalance has happened so far in the run.
NoRebalanceYet ==
    \/ strategy_cls.kind = "HODL"
    \/ /\ strategy_cls.price_anchor = strategy_cls.initial_price
       /\ \A i \in WrittenRows : ~df[i].rec.trade_event

\* C19 as claimed: with constant prices and all APYs zero, profit_value = 0
\* in every epoch, for every supported leverage, fee_swap and fee_gas.
C19_ZeroProfit ==
    (ConstantPrices /\ AllApysZero) =>
        \A i \in WrittenRows : df[i].rec.profit_value = Zero

\* C19 amended: with constant prices and all APYs zero, as long as no
\* rebalance has happened, profit_value = -(fee_swap * initial_cap) -
\* fees_value in every epoch: the swap fee of the open and the gas fees paid
\* so far are lost; it is 0 when fee_swap = 0 and fee_gas = 0.
C19_ProfitIsMinusFees ==
    (ConstantPrices /\ AllApysZero /\ NoRebalanceYet) =>
        \A i \in WrittenRows :
            /\ df[i].rec.profit_value =
                    Sub(Neg(Mul(args.fee_swap, args.initial_cap)), df[i].rec.fees_value)
            /\ df[i].rec.pool_equity = OpenCapital
            /\ (args.fee_swap = Zero /\ args.fee_gas = Zero) =>
                    df[i].rec.profit_value = Zero

\* A leveraged run with a swap fee over constant prices and zero APYs has
\* returned with a loss that grew from epoch to epoch.
C19_Witness ==
    /\ ConstantPrices /\ AllApysZero /\ NoRebalanceYet
    /\ pc = "returned"
    /\ args.leverage = Three
    /\ args.fee_swap = Half
    /\ Lt(df[NumDates].rec.profit_value, df[1].rec.profit_value)
    /\ Lt(df[1].rec.profit_value, Neg(Mul(args.fee_swap, args.initial_cap)))

\* C20: in every epoch token0_supply_open * token1_supply_open is the product
\* of the previous epoch's closing supplies (fee accrual, reinvestment and
\* rebalance included), and in the first epoch the product of the supplies
\* the initial open returned.
C20_ProductCarriedFromClose ==
    \A i \in WrittenRows :
        Mul(df[i].rec.token0_supply_open, df[i].rec.token1_supply_open)
            = Mul(PrevSupply(i)[1], PrevSupply(i)[2])

\* An epoch after a rebalance was repriced at a new ratio from closing
\* supplies whose product is not that of the original opening supplies.
C20_Witness ==
    \E i \in WrittenRows :
        /\ i > 1
        /\ df[i - 1].rec.trade_event
        /\ RowRatio(i) # RowRatio(i - 1)
        /\ Gt(df[i - 1].rec.token0_earnings, Zero)
        /\ Mul(PrevSupply(i)[1], PrevSupply(i)[2])
                # Mul(token_supply_initial[1], token_supply_initial[2])
        /\ Gt(df[i].rec.token0_supply_open, Zero)

\* The cash carried into epoch i: none after the initial open, else the
\* cash_value of the previous epoch.
PrevCash(i) ==
    IF i = 1 THEN (IF args.open_on_start THEN Zero ELSE args.initial_cap)
    ELSE df[i - 1].rec.cash_value

\* C21: in every epoch the trading strategy is called after repricing, fee
\* accrual, debt compounding and the reward strategy: it receives the opening
\* supply plus this epoch's fee earnings (and reinvested rewards, none under
\* SellRewardsStrategy), the debt after this epoch's compounding, the cash
\* carried over plus this epoch's reward cash, and exactly the rows up to the
\* current one, so the price it reads is the epoch's own and no future row
\* is visible to it.
C21_StrategyInputs ==
    call.made =>
        LET i == idx - 1
            rec == df[i].rec
        IN  /\ call.token_supply_in =
                    <<Add(rec.token0_supply_open, rec.token0_earnings),
                      Add(rec.token1_supply_open, rec.token1_earnings)>>
            /\ call.token_debt_in =
                    <<Mul(PrevDebt(i)[1], np_exp_daily(args.apy_borrow_token0)),
                      Mul(PrevDebt(i)[2], np_exp_daily(args.apy_borrow_token1))>>
            /\ call.cash_in = Add(PrevCash(i), rec.cash_from_rewards)
            /\ Len(call.df_input) = i
            /\ \A j \in 1..i :
                    call.df_input[j] = <<df_in[j].token0_price, df_in[j].token1_price>>
            /\ call.df_input[Len(call.df_input)] =
                    <<df[i].row.token0_price, df[i].row.token1_price>>
            /\ call.token1_price = df_in[i].token1_price
            /\ call.self.kind = "Rebalance" =>
                    call.out.metadata =
                        << <<"price_delta",
                             NpDiv(AbsQ(Sub(df_in[i].token1_price, call.self.price_anchor)),
                                   call.self.price_anchor)>> >>

\* The rebalancing strategy was called in the second epoch, with a later row
\* at other prices still to come, on supplies grown by earnings, compounded
\* debt and cash from sold rewards.
C21_Witness ==
    /\ call.made
    /\ call.self.kind = "Rebalance"
    /\ idx = 3
    /\ idx <= Len(df)
    /\ df[idx].row.token1_price # df[idx - 1].row.token1_price
    /\ Gt(df[idx - 1].rec.token0_earnings, Zero)
    /\ Gt(df[idx - 1].rec.cash_from_rewards, Zero)
    /\ Gt(call.cash_in, df[idx - 1].rec.cash_from_rewards)
    /\ Gt(call.token_debt_in[2], PrevDebt(idx - 1)[2])

\* Supply minus debt, valued at the given prices.
PoolEquity(supply, debt, prices) ==
    Add(Mul(Sub(supply[1], debt[1]), prices[1]), Mul(Sub(supply[2], debt[2]), prices[2]))

\* C22: when the strategy rebalances with close amount a, the position it
\* returns is the remainder (the share 1 - a of supply and debt) plus the
\* newly opened position, and the pool equity after the rebalance is the pool
\* equity before it less the swap fees of the close and of the reopen.
C22_RebalanceKeepsRemainder ==
    (call.made /\ call.out.rebalanced) =>
        LET fee_swap == call.self.fee_swap
            opened == add_liquidity(CallClosed.cash, call.self.leverage, CallPrices,
                                    fee_swap, call.self.fee_gas)
            equity_in == PoolEquity(call.token_supply_in, call.token_debt_in, CallPrices)
            swap_fee_close == Mul(Mul(equity_in, call.self.amount), fee_swap)
            swap_fee_open == Mul(CallClosed.cash, fee_swap)
        IN  /\ call.out.token_supply =
                    <<Add(CallClosed.token_supply[1], opened.token_supply[1]),
                      Add(CallClosed.token_supply[2], opened.token_supply[2])>>
            /\ call.out.token_debt =
                    <<Add(CallClosed.token_debt[1], opened.token_debt[1]),
                      Add(CallClosed.token_debt[2], opened.token_debt[2])>>
            /\ PoolEquity(call.out.token_supply, call.out.token_debt, CallPrices) =
                    Sub(Sub(equity_in, swap_fee_close), swap_fee_open)

\* C23: a second run with the same table, the same arguments and the same
\* strategy objects writes the records the first run wrote; the caller's
\* table is as it was given, without any derived column.
C23_RunsIsolated ==
    /\ first_run # None =>
        \A i \in WrittenRows : df[i] = first_run[i]
    /\ (first_run # None /\ pc = "returned") => df = first_run
    /\ \A i \in 1..Len(df_in) :
        DOMAIN df_in[i] = {"token0_price", "token1_price", "reward_token_price",
                           "apy_trading_fee", "apy_reward", "apy_borrow_token0",
                           "apy_borrow_token1"}

\* C24: both trading strategies return the cash passed in, rebalancing or
\* not, so after every epoch cash_value is the previous epoch's cash_value
\* plus the epoch's cash_from_rewards; the cash freed by a close is used to
\* reopen the position only.
C24_StrategiesKeepCash ==
    /\ \A i \in WrittenRows :
        df[i].rec.cash_value = Add(PrevCash(i), df[i].rec.cash_from_rewards)
    /\ call.made =>
        /\ call.out.cash = call.cash_in
        /\ cash_accum = call.cash_in
        /\ df[idx - 1].rec.cash_value = call.cash_in
        /\ call.out.rebalanced =>
            call.out.token_supply =
                add_liquidity(CallClosed.cash, call.self.leverage, CallPrices,
                              call.self.fee_swap, call.self.fee_gas).token_supply

\* A rebalance closed for a positive amount of cash in an epoch that also
\* brought cash from rewards, after an epoch that had left cash.
C24_Witness ==
    /\ call.made
    /\ call.out.rebalanced
    /\ idx > 2
    /\ Gt(CallClosed.cash, Zero)
    /\ Gt(df[idx - 1].rec.cash_from_rewards, Zero)
    /\ Gt(df[idx - 2].rec.cash_value, Zero)
    /\ Gt(df[idx - 1].rec.cash_value, df[idx - 2].rec.cash_value)

====
